---- MODULE Spec2Model ----
(***************************************************************************)
(* charge-lnd policy resolution (src/charge_lnd/policy.py).                *)
(*                                                                         *)
(* Policies.get_policy_for scans the configured policy sections in order,  *)
(* asks eval_matchers whether a section matches the channel, merges the    *)
(* matching sections into a Policy object and stops at the first section   *)
(* that carries a strategy.  match_by_node and match_by_chan evaluate the  *)
(* node.* and chan.* criteria against the channel record and the lnd       *)
(* gateway.                                                                *)
(*                                                                         *)
(* Representation.                                                         *)
(*  - An option key is the tuple of its dot-separated segments:            *)
(*    "chan.min_capacity" is <<"chan", "min_capacity">>, "strategy" is     *)
(*    <<"strategy">>.  key.split(".") is that tuple.                       *)
(*  - A raw policy section is a sequence of [key, val] entries with        *)
(*    distinct keys, in the order the section lists them.                  *)
(*  - An option value is a record [n, s, l]: s is the text of a string     *)
(*    option, n the number of a numeric option (a ratio is written in      *)
(*    hundredths: 0.25 is 25), l the items of a list option.  An activity  *)
(*    period "10m" is n = 10, s = "m"; a bare "600" is n = 600, s = "".    *)
(*  - A Python call either returns or raises: matcher outcomes are records *)
(*    [ret, exc, calls, log] with ret in {"true", "false", "raise"}, exc   *)
(*    the exception, calls the gateway calls made and log the lines        *)
(*    written with debug(), both in order.                                 *)
(***************************************************************************)
EXTENDS Integers, Sequences, FiniteSets, TLC

VARIABLES config, lnd, files, channel, policy, result, log, trace, first

vars == <<config, lnd, files, channel, policy, result, log, trace, first>>

(***************************************************************************)
(* Option values, keys and sections                                        *)
(***************************************************************************)
IntV(n) == [n |-> n, s |-> "", l |-> <<>>]

StrV(s) == [n |-> 0, s |-> s, l |-> <<>>]

ListV(l) == [n |-> 0, s |-> "", l |-> l]

Period(n, suffix) == [n |-> n, s |-> suffix, l |-> <<>>]

\* a list item: the text itself, or "file://" followed by the text
Item(text) == [file |-> FALSE, text |-> text]

FileItem(url) == [file |-> TRUE, text |-> url]

Opt(key, val) == [key |-> key, val |-> val]

Chan(name) == <<"chan", name>>

Node(name) == <<"node", name>>

Plain(name) == <<name>>

Range(f) == {f[i] : i \in DOMAIN f}

Min(S) == CHOOSE x \in S : \A y \in S : x <= y

\* config.keys()
Keys(section) == {section[i].key : i \in DOMAIN section}

\* key in config
Has(section, key) == key \in Keys(section)

Val(section, key) == section[CHOOSE i \in DOMAIN section : section[i].key = key].val

\* config.get(key) / getint / getboolean / getlist; getfloat yields hundredths
get(section, key) == Val(section, key).s

getint(section, key) == Val(section, key).n

getfloat100(section, key) == Val(section, key).n

\* getboolean of a well-formed boolean text ("true"/"false" and their synonyms)
getboolean(section, key) == Val(section, key).s \in {"1", "yes", "true", "on"}

getlist(section, key) == Val(section, key).l

(***************************************************************************)
(* Outcomes of a call                                                      *)
(***************************************************************************)
Returned(b, calls) ==
    [ret |-> IF b THEN "true" ELSE "false", exc |-> "", calls |-> calls, log |-> <<>>]

Raised(exc, calls) == [ret |-> "raise", exc |-> exc, calls |-> calls, log |-> <<>>]

\* the outcome m of a call that had written the lines written before it ended
After(written, m) == [m EXCEPT !.log = written \o @]

(***************************************************************************)
(* fmt: channel ids.  A channel id is <<block, tx, output>>.               *)
(***************************************************************************)
parse_channel_id(text) ==
    CASE text = "1x0x0" -> [ok |-> TRUE, id |-> <<1, 0, 0>>]
      [] text = "2x0x0" -> [ok |-> TRUE, id |-> <<2, 0, 0>>]
      [] text = "3x0x0" -> [ok |-> TRUE, id |-> <<3, 0, 0>>]
      [] OTHER -> [ok |-> FALSE, id |-> <<>>]

lnd_to_cl_scid(chan_id) == chan_id

(***************************************************************************)
(* read_nodelist / read_chanlist.  files[url] is [readable, entries]; an   *)
(* entry [body, comment] is the text body, then "#" and the comment.  The  *)
(* result is [ok, list, log]: ok = FALSE when open() raises, list the      *)
(* returned ids, log one debug() line for every entry that is neither an   *)
(* id nor empty.                                                           *)
(***************************************************************************)
\* re.match("^([0-9a-z]{66})$", raw_id): the well-formed pubkey texts
IsPubkeyText(text) == text \in {"peerA", "peerB", "peerC"}

\* raw_id.split('#')[0].strip()
StripComment(entry) == entry.body

\* debug("Ignored: invalid node pubkey '%s' in '%s'" % (raw_id,url))
IgnoredNode(raw_id, url) ==
    "Ignored: invalid node pubkey '" \o raw_id \o "' in 'file://" \o url \o "'"

\* debug("Ignored: invalid channel id '%s' in '%s'" % (raw_id,url))
IgnoredChan(raw_id, url) ==
    "Ignored: invalid channel id '" \o raw_id \o "' in 'file://" \o url \o "'"

read_nodelist(url) ==
    IF ~files[url].readable THEN [ok |-> FALSE, list |-> <<>>, log |-> <<>>]
    ELSE LET raw_ids == [i \in DOMAIN files[url].entries |-> StripComment(files[url].entries[i])]
             invalid == SelectSeq(raw_ids, LAMBDA raw_id : ~IsPubkeyText(raw_id) /\ raw_id # "")
         IN  [ok |-> TRUE, list |-> SelectSeq(raw_ids, IsPubkeyText),
              log |-> [i \in DOMAIN invalid |-> IgnoredNode(invalid[i], url)]]

ParsesAsChanId(text) == parse_channel_id(text).ok

read_chanlist(url) ==
    IF ~files[url].readable THEN [ok |-> FALSE, list |-> <<>>, log |-> <<>>]
    ELSE LET raw_ids == [i \in DOMAIN files[url].entries |-> StripComment(files[url].entries[i])]
             good == SelectSeq(raw_ids, ParsesAsChanId)
             invalid == SelectSeq(raw_ids, LAMBDA raw_id : ~ParsesAsChanId(raw_id) /\ raw_id # "")
         IN  [ok |-> TRUE, list |-> [i \in DOMAIN good |-> parse_channel_id(good[i]).id],
              log |-> [i \in DOMAIN invalid |-> IgnoredChan(invalid[i], url)]]

(***************************************************************************)
(* Unknown-property check shared by match_by_node and match_by_chan: the   *)
(* keys are visited in section order and the first offending key raises.   *)
(* key.split(".")[1] of a key without a dot is an IndexError.              *)
(***************************************************************************)
KeyCheck(section, ns, accepted) ==
    LET bad == {i \in DOMAIN section :
                  /\ section[i].key[1] = ns
                  /\ (Len(section[i].key) < 2 \/ section[i].key[2] \notin accepted)}
    IN  IF bad = {} THEN ""
        ELSE IF Len(section[Min(bad)].key) < 2 THEN "IndexError"
        ELSE "Unknown property"

(***************************************************************************)
(* Policies.match_by_node                                                  *)
(***************************************************************************)
node_accepted == {"id", "min_channels", "max_channels", "min_capacity", "max_capacity"}

\* lines 140-146: [ok, list, log], log the lines the reads wrote, kept when a
\* later read raises
RECURSIVE ExpandNodeIds(_, _, _)
ExpandNodeIds(items, node_list, written) ==
    IF items = <<>> THEN [ok |-> TRUE, list |-> node_list, log |-> written]
    ELSE IF Head(items).file
         THEN IF ~read_nodelist(Head(items).text).ok
              THEN [ok |-> FALSE, list |-> <<>>, log |-> written]
              ELSE ExpandNodeIds(Tail(items), node_list \o read_nodelist(Head(items).text).list,
                                 written \o read_nodelist(Head(items).text).log)
         ELSE ExpandNodeIds(Tail(items), Append(node_list, Head(items).text), written)

NodeBoundsFail(section, node_info) ==
    \/ Has(section, Node("min_channels")) /\ ~(getint(section, Node("min_channels")) <= node_info.num_channels)
    \/ Has(section, Node("max_channels")) /\ ~(getint(section, Node("max_channels")) >= node_info.num_channels)
    \/ Has(section, Node("min_capacity")) /\ ~(getint(section, Node("min_capacity")) <= node_info.total_capacity)
    \/ Has(section, Node("max_capacity")) /\ ~(getint(section, Node("max_capacity")) >= node_info.total_capacity)

\* lines 138-160, with ids the expanded node.id list
NodeIdPart(ch, section, ids) ==
    IF ~ids.ok THEN After(ids.log, Raised("OSError", <<>>))
    ELSE IF Has(section, Node("id")) /\ ch.remote_pubkey \notin Range(ids.list)
         THEN After(ids.log, Returned(FALSE, <<>>))
    ELSE After(ids.log, Returned(~NodeBoundsFail(section, lnd.node_info[ch.remote_pubkey]),
                                 <<"get_node_info">>))

match_by_node(ch, section) ==
    IF KeyCheck(section, "node", node_accepted) # ""
    THEN Raised(KeyCheck(section, "node", node_accepted), <<>>)
    ELSE NodeIdPart(ch, section,
                    IF Has(section, Node("id"))
                    THEN ExpandNodeIds(getlist(section, Node("id")), <<>>, <<>>)
                    ELSE [ok |-> TRUE, list |-> <<>>, log |-> <<>>])

(***************************************************************************)
(* Policies.parse_activity_period: a bare integer is seconds, else the     *)
(* last character selects the multiplier (KeyError when it is not one of   *)
(* s, m, h, d).                                                            *)
(***************************************************************************)
mulmap == [s |-> 1, m |-> 60, h |-> 60 * 60, d |-> 60 * 60 * 24]

parse_activity_period(period) ==
    IF period.s = "" THEN [ok |-> TRUE, seconds |-> period.n]
    ELSE IF period.s \in DOMAIN mulmap
         THEN [ok |-> TRUE, seconds |-> period.n * mulmap[period.s]]
         ELSE [ok |-> FALSE, seconds |-> 0]

(***************************************************************************)
(* Policies.match_by_chan                                                  *)
(***************************************************************************)
chan_accepted ==
    {"id", "initiator", "private", "min_ratio", "max_ratio", "min_capacity", "max_capacity",
     "min_local_balance", "max_local_balance", "min_remote_balance", "max_remote_balance",
     "min_base_fee_msat", "max_base_fee_msat", "min_fee_ppm", "max_fee_ppm",
     "min_age", "max_age", "activity_period",
     "min_htlcs_in", "max_htlcs_in", "min_htlcs_out", "max_htlcs_out",
     "min_sats_in", "max_sats_in", "min_sats_out", "max_sats_out"}

\* items of chan.id: a file:// entry is expanded, any other is parsed;
\* ok = FALSE with exc when the file cannot be read or the text is no id;
\* log holds the lines the reads wrote, kept when a later item raises
RECURSIVE ExpandChanIds(_, _, _)
ExpandChanIds(items, chan_list, written) ==
    IF items = <<>> THEN [ok |-> TRUE, exc |-> "", list |-> chan_list, log |-> written]
    ELSE IF Head(items).file
         THEN IF ~read_chanlist(Head(items).text).ok
              THEN [ok |-> FALSE, exc |-> "OSError", list |-> <<>>, log |-> written]
              ELSE ExpandChanIds(Tail(items), chan_list \o read_chanlist(Head(items).text).list,
                                 written \o read_chanlist(Head(items).text).log)
         ELSE IF ~parse_channel_id(Head(items).text).ok
              THEN [ok |-> FALSE, exc |-> "ValueError", list |-> <<>>, log |-> written]
              ELSE ExpandChanIds(Tail(items), Append(chan_list, parse_channel_id(Head(items).text).id),
                                 written)

\* DivisionByZero with a fault seeded: the quotient is guarded
DivisionByZero_guarded(ch) == FALSE

\* line 201: the quotient local_balance / (local_balance + remote_balance) is taken
\* whether or not a ratio bound is configured
DivisionByZero(ch) == ch.local_balance + ch.remote_balance = 0

FlagsFail(section, ch) ==
    \/ Has(section, Chan("initiator")) /\ ~(ch.initiator = getboolean(section, Chan("initiator")))
    \/ Has(section, Chan("private")) /\ ~(ch.private = getboolean(section, Chan("private")))

\* ratio = local_balance / (local_balance + remote_balance), compared with a
\* bound of h hundredths: h/100 >= ratio iff h * (local + remote) >= 100 * local
RatioBoundsFail(section, ch) ==
    LET total == ch.local_balance + ch.remote_balance
    IN  \/ Has(section, Chan("max_ratio"))
           /\ ~(getfloat100(section, Chan("max_ratio")) * total >= 100 * ch.local_balance)
        \/ Has(section, Chan("min_ratio"))
           /\ ~(getfloat100(section, Chan("min_ratio")) * total <= 100 * ch.local_balance)

\* BalanceBoundsFail with a fault seeded: min_capacity excludes its bound
BalanceBoundsFail_strict(section, ch) ==
    \/ Has(section, Chan("max_capacity")) /\ ~(getint(section, Chan("max_capacity")) >= ch.capacity)
    \/ Has(section, Chan("min_capacity")) /\ ~(getint(section, Chan("min_capacity")) < ch.capacity)
    \/ Has(section, Chan("max_local_balance")) /\ ~(getint(section, Chan("max_local_balance")) >= ch.local_balance)
    \/ Has(section, Chan("min_local_balance")) /\ ~(getint(section, Chan("min_local_balance")) <= ch.local_balance)
    \/ Has(section, Chan("max_remote_balance")) /\ ~(getint(section, Chan("max_remote_balance")) >= ch.remote_balance)
    \/ Has(section, Chan("min_remote_balance")) /\ ~(getint(section, Chan("min_remote_balance")) <= ch.remote_balance)

BalanceBoundsFail(section, ch) ==
    \/ Has(section, Chan("max_capacity")) /\ ~(getint(section, Chan("max_capacity")) >= ch.capacity)
    \/ Has(section, Chan("min_capacity")) /\ ~(getint(section, Chan("min_capacity")) <= ch.capacity)
    \/ Has(section, Chan("max_local_balance")) /\ ~(getint(section, Chan("max_local_balance")) >= ch.local_balance)
    \/ Has(section, Chan("min_local_balance")) /\ ~(getint(section, Chan("min_local_balance")) <= ch.local_balance)
    \/ Has(section, Chan("max_remote_balance")) /\ ~(getint(section, Chan("max_remote_balance")) >= ch.remote_balance)
    \/ Has(section, Chan("min_remote_balance")) /\ ~(getint(section, Chan("min_remote_balance")) <= ch.remote_balance)

PeerFeeBoundsFail(section, peernode_policy) ==
    \/ Has(section, Chan("min_base_fee_msat")) /\ ~(getint(section, Chan("min_base_fee_msat")) <= peernode_policy.fee_base_msat)
    \/ Has(section, Chan("max_base_fee_msat")) /\ ~(getint(section, Chan("max_base_fee_msat")) >= peernode_policy.fee_base_msat)
    \/ Has(section, Chan("min_fee_ppm")) /\ ~(getint(section, Chan("min_fee_ppm")) <= peernode_policy.fee_rate_milli_msat)
    \/ Has(section, Chan("max_fee_ppm")) /\ ~(getint(section, Chan("max_fee_ppm")) >= peernode_policy.fee_rate_milli_msat)

AgeBoundsFail(section, age) ==
    \/ Has(section, Chan("min_age")) /\ ~(getint(section, Chan("min_age")) <= age)
    \/ Has(section, Chan("max_age")) /\ ~(getint(section, Chan("max_age")) >= age)

ActivityBoundsFail(section, fwds) ==
    \/ Has(section, Chan("max_htlcs_in")) /\ fwds.htlc_in > getint(section, Chan("max_htlcs_in"))
    \/ Has(section, Chan("min_htlcs_in")) /\ fwds.htlc_in < getint(section, Chan("min_htlcs_in"))
    \/ Has(section, Chan("max_htlcs_out")) /\ fwds.htlc_out > getint(section, Chan("max_htlcs_out"))
    \/ Has(section, Chan("min_htlcs_out")) /\ fwds.htlc_out < getint(section, Chan("min_htlcs_out"))
    \/ Has(section, Chan("max_sats_in")) /\ fwds.sat_in > getint(section, Chan("max_sats_in"))
    \/ Has(section, Chan("min_sats_in")) /\ fwds.sat_in < getint(section, Chan("min_sats_in"))
    \/ Has(section, Chan("max_sats_out")) /\ fwds.sat_out > getint(section, Chan("max_sats_out"))
    \/ Has(section, Chan("min_sats_out")) /\ fwds.sat_out < getint(section, Chan("min_sats_out"))

\* lines 244-277: the activity window, entered with the calls made so far
ActivityPart(ch, section, age, calls) ==
    IF ~Has(section, Chan("activity_period")) THEN Returned(TRUE, calls)
    ELSE LET p == parse_activity_period(Val(section, Chan("activity_period")))
             calls2 == Append(calls, "get_forward_history")
             fwds == lnd.fwds[ch.chan_id]
             age_seconds == age * 10 * 60
         IN  IF ~p.ok THEN Raised("KeyError", calls)
             ELSE IF age_seconds < p.seconds THEN Returned(FALSE, calls2)
             ELSE Returned(~ActivityBoundsFail(section, fwds), calls2)

\* lines 234-242: the node's block height and the channel's age in blocks
AgePart(ch, section, calls) ==
    LET info == lnd.info
        calls2 == Append(calls, "get_info")
        block == lnd_to_cl_scid(ch.chan_id)[1]
        age == info.block_height - block
    IN  IF ~info.present THEN Returned(FALSE, calls2)
        ELSE IF AgeBoundsFail(section, age) THEN Returned(FALSE, calls2)
        ELSE ActivityPart(ch, section, age, calls2)

\* PeerFeePart with a fault seeded: a missing record matters only when a fee bound is configured
PeerFeePart_lazy(ch, section) ==
    LET chan_info == lnd.chan_info[ch.chan_id]
        peernode_policy == IF chan_info.node2_pub = lnd.own_pubkey THEN chan_info.node1_policy
                           ELSE chan_info.node2_policy
        wanted == \E k \in {"min_base_fee_msat", "max_base_fee_msat", "min_fee_ppm", "max_fee_ppm"} :
                      Has(section, Chan(k))
    IN  IF ~wanted THEN AgePart(ch, section, <<"get_chan_info">>)
        ELSE IF ~chan_info.present THEN Returned(FALSE, <<"get_chan_info">>)
        ELSE IF PeerFeeBoundsFail(section, peernode_policy)
             THEN Returned(FALSE, <<"get_chan_info", "get_own_pubkey">>)
        ELSE AgePart(ch, section, <<"get_chan_info", "get_own_pubkey">>)

\* lines 219-232: the peer's advertised fee policy
PeerFeePart(ch, section) ==
    LET chan_info == lnd.chan_info[ch.chan_id]
        my_pubkey == lnd.own_pubkey
        peernode_policy == IF chan_info.node2_pub = my_pubkey THEN chan_info.node1_policy
                           ELSE chan_info.node2_policy
    IN  IF ~chan_info.present THEN Returned(FALSE, <<"get_chan_info">>)
        ELSE IF PeerFeeBoundsFail(section, peernode_policy)
             THEN Returned(FALSE, <<"get_chan_info", "get_own_pubkey">>)
        ELSE AgePart(ch, section, <<"get_chan_info", "get_own_pubkey">>)

\* lines 183-279, with ids the expanded chan.id list
ChanIdPart(ch, section, ids) ==
    IF ~ids.ok THEN After(ids.log, Raised(ids.exc, <<>>))
    ELSE IF Has(section, Chan("id")) /\ ch.chan_id \notin Range(ids.list)
         THEN After(ids.log, Returned(FALSE, <<>>))
    ELSE IF FlagsFail(section, ch) THEN After(ids.log, Returned(FALSE, <<>>))
    ELSE IF DivisionByZero(ch) THEN After(ids.log, Raised("ZeroDivisionError", <<>>))
    ELSE IF RatioBoundsFail(section, ch) THEN After(ids.log, Returned(FALSE, <<>>))
    ELSE IF BalanceBoundsFail(section, ch) THEN After(ids.log, Returned(FALSE, <<>>))
    ELSE After(ids.log, PeerFeePart(ch, section))

match_by_chan(ch, section) ==
    IF KeyCheck(section, "chan", chan_accepted) # ""
    THEN Raised(KeyCheck(section, "chan", chan_accepted), <<>>)
    ELSE ChanIdPart(ch, section,
                    IF Has(section, Chan("id"))
                    THEN ExpandChanIds(getlist(section, Chan("id")), <<>>, <<>>)
                    ELSE [ok |-> TRUE, exc |-> "", list |-> <<>>, log |-> <<>>])

(***************************************************************************)
(* Policies.eval_matchers.  The namespaces are collected in key order, one *)
(* per dotted key; the loop then visits them in that order.  An outcome is *)
(* [ret, exc, calls, invoked, warned, log]: invoked lists the matchers     *)
(* run, warned tells whether "Unknown namespace" was written, log holds    *)
(* the lines written by the matchers and the warning, in order.            *)
(***************************************************************************)
matcher_map == {"chan", "node"}

\* Namespaces with a fault seeded: dotted keys of other namespaces are dropped
Namespaces_known(section) ==
    LET dotted == SelectSeq(section, LAMBDA o : Len(o.key) > 1 /\ o.key[1] \in {"chan", "node"})
    IN  [i \in DOMAIN dotted |-> dotted[i].key[1]]

\* Namespaces with a fault seeded: each namespace is listed once, at its first key
Namespaces_dedup(section) ==
    LET dotted == SelectSeq(section, LAMBDA o : Len(o.key) > 1)
        idx == {i \in DOMAIN dotted : \A j \in 1..(i - 1) : dotted[j].key[1] # dotted[i].key[1]}
    IN  [n \in 1..Cardinality(idx) |->
            dotted[CHOOSE i \in idx : Cardinality({j \in idx : j < i}) = n - 1].key[1]]

Namespaces(section) ==
    LET dotted == SelectSeq(section, LAMBDA o : Len(o.key) > 1)
    IN  [i \in DOMAIN dotted |-> dotted[i].key[1]]

RunMatcher(ns, ch, section) ==
    IF ns = "chan" THEN match_by_chan(ch, section) ELSE match_by_node(ch, section)

EvalOutcome(ret, exc, calls, invoked, warned) ==
    [ret |-> ret, exc |-> exc, calls |-> calls, invoked |-> invoked, warned |-> warned,
     log |-> IF warned THEN <<"Unknown namespace">> ELSE <<>>]

\* the loop of lines 122-126; an outcome's log holds the lines written from
\* the entry it was computed at onwards
RECURSIVE EvalLoop(_, _, _, _, _, _)
\* line 126 after the matcher ended with m
Conjoined(ch, section, namespaces, calls, invoked, m) ==
    IF m.ret = "raise"
    THEN After(m.log, EvalOutcome("raise", m.exc, calls \o m.calls,
                                  Append(invoked, Head(namespaces)), FALSE))
    ELSE After(m.log, EvalLoop(ch, section, Tail(namespaces), m.ret = "true",
                               calls \o m.calls, Append(invoked, Head(namespaces))))

EvalLoop(ch, section, namespaces, matches_policy, calls, invoked) ==
    IF namespaces = <<>>
    THEN EvalOutcome(IF matches_policy THEN "true" ELSE "false", "", calls, invoked, FALSE)
    ELSE IF Head(namespaces) \notin matcher_map
         THEN EvalOutcome("false", "", calls, invoked, TRUE)
    ELSE IF ~matches_policy
         THEN EvalLoop(ch, section, Tail(namespaces), FALSE, calls, invoked)
    ELSE Conjoined(ch, section, namespaces, calls, invoked,
                   RunMatcher(Head(namespaces), ch, section))

eval_matchers(ch, section) == EvalLoop(ch, section, Namespaces(section), TRUE, <<>>, <<>>)

(***************************************************************************)
(* Policy: [name, strategy, config].  config maps keys to values; strategy *)
(* tells whether a StrategyDelegate is bound; name "None" is Python's None.*)
(***************************************************************************)
PolicyInit == [name |-> "None", strategy |-> FALSE, config |-> <<>>]

\* SetItem with a fault seeded: the first value written under a key is kept
SetItem_setdefault(cfg, k, v) ==
    IF k \in DOMAIN cfg THEN cfg
    ELSE [x \in DOMAIN cfg \cup {k} |-> IF x = k THEN v ELSE cfg[x]]

\* self.config[k] = v
SetItem(cfg, k, v) == [x \in DOMAIN cfg \cup {k} |-> IF x = k THEN v ELSE cfg[x]]

RECURSIVE MaskOver(_, _)
MaskOver(cfg, items) ==
    IF items = <<>> THEN cfg
    ELSE MaskOver(SetItem(cfg, Head(items).key, Head(items).val), Tail(items))

\* strategy = policy_config.get('strategy'); if strategy:
IsFinal(section) == Has(section, Plain("strategy")) /\ get(section, Plain("strategy")) # ""

\* Policy.apply: [policy, final]
apply(pol, policy_name, section) ==
    LET cfg == MaskOver(pol.config, section)
    IN  IF IsFinal(section)
        THEN [policy |-> [name |-> policy_name, strategy |-> TRUE, config |-> cfg], final |-> TRUE]
        ELSE [policy |-> [pol EXCEPT !.config = cfg], final |-> FALSE]

(***************************************************************************)
(* Policies.get_policy_for.  config is [policies, sections, default]:      *)
(* policies the names in declaration order, sections[name] what            *)
(* get_config_for(name) returns, default [present, section].  The outcome  *)
(* is [kind, policy, exc, evaluated, applied, calls, invoked, warned]:     *)
(* kind "policy" returns the Policy object, kind "none" returns None;      *)
(* evaluated and applied list the policy names given to eval_matchers and  *)
(* to apply, in order.                                                     *)
(***************************************************************************)
get_config_for(policy_name) == config.sections[policy_name]

\* what one eval_matchers call did, kept for the policy it was made for
EvalRecord(policy_name, e) ==
    [policy |-> policy_name, ret |-> e.ret, exc |-> e.exc, calls |-> e.calls,
     invoked |-> e.invoked, warned |-> e.warned, log |-> e.log]

Outcome(kind, pol, exc, t) ==
    [kind |-> kind, policy |-> pol, exc |-> exc, evals |-> t.evals, applied |-> t.applied]

\* if self.config.default: the section is there and has an option
DefaultConfigured == config.default.present /\ config.default.section # <<>>

\* AfterScan with a fault seeded: a configured default is returned whether or not it is final
AfterScan_anydefault(pol, t) ==
    IF DefaultConfigured
    THEN Outcome("policy", apply(pol, "default", config.default.section).policy, "",
                 [t EXCEPT !.applied = Append(@, "default")])
    ELSE Outcome("none", pol, "", t)

\* lines 104-108: after the loop
AfterScan(pol, t) ==
    IF DefaultConfigured
    THEN LET a == apply(pol, "default", config.default.section)
             t2 == [t EXCEPT !.applied = Append(@, "default")]
         IN  IF a.final THEN Outcome("policy", a.policy, "", t2)
             ELSE Outcome("none", a.policy, "", t2)
    ELSE Outcome("none", pol, "", t)

\* OnException with a fault seeded: the exception is swallowed and the default tried
OnException_fallthrough(pol, exc, t) == AfterScan(pol, t)

\* lines 100-102: the error is written and None returned
OnException(pol, exc, t) == Outcome("none", pol, exc, t)

\* the trace after eval_matchers returned e for policy_name / after apply
Evaluated(t, policy_name, e) == [t EXCEPT !.evals = Append(@, EvalRecord(policy_name, e))]

Applied(t, policy_name) == [t EXCEPT !.applied = Append(@, policy_name)]

\* lines 94-99: the loop over self.config.policies; Matched is the body of
\* "if self.eval_matchers(...)" with a the outcome of policy.apply
RECURSIVE Scan(_, _, _, _)
\* Matched with a fault seeded: the scan goes on after a final policy
Matched_keepscanning(ch, names, a, t) == Scan(ch, Tail(names), a.policy, t)

Matched(ch, names, a, t) ==
    IF a.final THEN Outcome("policy", a.policy, "", t)
    ELSE Scan(ch, Tail(names), a.policy, t)

ScanStep(ch, names, pol, t, e) ==
    IF e.ret = "raise" THEN OnException(pol, e.exc, Evaluated(t, Head(names), e))
    ELSE IF e.ret = "true"
         THEN Matched(ch, names, apply(pol, Head(names), get_config_for(Head(names))),
                      Applied(Evaluated(t, Head(names), e), Head(names)))
         ELSE Scan(ch, Tail(names), pol, Evaluated(t, Head(names), e))

Scan(ch, names, pol, t) ==
    IF names = <<>> THEN AfterScan(pol, t)
    ELSE ScanStep(ch, names, pol, t, eval_matchers(ch, get_config_for(Head(names))))

EmptyTrace == [evals |-> <<>>, applied |-> <<>>]

get_policy_for(ch) == Scan(ch, config.policies, PolicyInit, EmptyTrace)

(***************************************************************************)
(* State.  config, lnd and files are the configuration, the gateway's      *)
(* snapshot and the identifier files; a call reads them and leaves them    *)
(* alone.  channel is the argument of the last call, policy the Policy     *)
(* object it built (changed afterwards by Policy.set), result what it      *)
(* returned, log what it wrote with debug(), trace what it evaluated.      *)
(* first[chan_id] is what the first get_policy_for call for that channel   *)
(* returned.                                                               *)
(***************************************************************************)
NoChannel ==
    [remote_pubkey |-> "", chan_id |-> <<>>, capacity |-> 0, local_balance |-> 0,
     remote_balance |-> 0, initiator |-> FALSE, private |-> FALSE]

Idle == [op |-> "idle", kind |-> "none", exc |-> "", value |-> PolicyInit]

Unset == [op |-> "unset", kind |-> "none", exc |-> "", value |-> PolicyInit]

\* the debug() lines of a call: what each eval_matchers call wrote (ignored
\* file entries, the unknown-namespace warning), in order, then the error
RECURSIVE Written(_)
Written(evals) == IF evals = <<>> THEN <<>> ELSE Head(evals).log \o Written(Tail(evals))

LogOf(evals, exc) ==
    Written(evals) \o (IF exc # "" THEN <<"Error evaluating criteria">> ELSE <<>>)

\* what the caller holds after the call returned outcome o
ReturnValue(o) ==
    [op |-> "get_policy_for", kind |-> o.kind, exc |-> o.exc,
     value |-> IF o.kind = "policy" THEN o.policy ELSE PolicyInit]

Return(ch, o) ==
    /\ channel' = ch
    /\ policy' = o.policy
    /\ result' = ReturnValue(o)
    /\ log' = LogOf(o.evals, o.exc)
    /\ trace' = [evals |-> o.evals, applied |-> o.applied]
    /\ first' = IF first[ch.chan_id].op = "unset" THEN [first EXCEPT ![ch.chan_id] = ReturnValue(o)]
                ELSE first
    /\ UNCHANGED <<config, lnd, files>>

GetPolicyFor(ch) == Return(ch, get_policy_for(ch))

\* Policy.set(key, value) on the Policy object the last call returned; result
\* then holds the object as the caller changed it
PolicySet(key, value) ==
    /\ result.op \in {"get_policy_for", "set"}
    /\ result.kind = "policy"
    /\ policy' = [policy EXCEPT !.config = SetItem(@, key, value)]
    /\ result' = [result EXCEPT !.op = "set", !.value = policy']
    /\ UNCHANGED <<config, lnd, files, channel, log, trace, first>>

\* one eval_matchers call, for the section of a configured policy
EvalMatchers(ch, policy_name) ==
    LET e == eval_matchers(ch, get_config_for(policy_name))
    IN  /\ channel' = ch
        /\ result' = [op |-> "eval_matchers", kind |-> e.ret, exc |-> e.exc, value |-> PolicyInit]
        /\ log' = LogOf(<<EvalRecord(policy_name, e)>>, "")
        /\ trace' = [evals |-> <<EvalRecord(policy_name, e)>>, applied |-> <<>>]
        /\ UNCHANGED <<config, lnd, files, policy, first>>

MatcherRecord(policy_name, ns, m) ==
    [policy |-> policy_name, ret |-> m.ret, exc |-> m.exc, calls |-> m.calls,
     invoked |-> <<ns>>, warned |-> FALSE, log |-> m.log]

MatchByChan(ch, policy_name) ==
    LET m == match_by_chan(ch, get_config_for(policy_name))
    IN  /\ channel' = ch
        /\ result' = [op |-> "match_by_chan", kind |-> m.ret, exc |-> m.exc, value |-> PolicyInit]
        /\ log' = m.log
        /\ trace' = [evals |-> <<MatcherRecord(policy_name, "chan", m)>>, applied |-> <<>>]
        /\ UNCHANGED <<config, lnd, files, policy, first>>

MatchByNode(ch, policy_name) ==
    LET m == match_by_node(ch, get_config_for(policy_name))
    IN  /\ channel' = ch
        /\ result' = [op |-> "match_by_node", kind |-> m.ret, exc |-> m.exc, value |-> PolicyInit]
        /\ log' = m.log
        /\ trace' = [evals |-> <<MatcherRecord(policy_name, "node", m)>>, applied |-> <<>>]
        /\ UNCHANGED <<config, lnd, files, policy, first>>

(***************************************************************************)
(* Inputs.  Measured quantities and bounds range over 0..MaxVal; a section *)
(* lists at most MaxKeys options; a configuration declares at most         *)
(* MaxPolicies policies.                                                   *)
(***************************************************************************)
MaxVal == 2

MaxKeys == 3

MaxPolicies == 3

Vals == 0..MaxVal

Pubkeys == {"peerA", "peerB"}

ChanIds == {<<1, 0, 0>>, <<2, 0, 0>>, <<3, 0, 0>>}

Files ==
    [u \in {"nodes.txt", "chans.txt", "missing.txt"} |->
        CASE u = "nodes.txt" ->
               [readable |-> TRUE,
                entries |-> <<[body |-> "peerA", comment |-> "a peer"], [body |-> "", comment |-> ""],
                              [body |-> "not a key", comment |-> ""]>>]
          [] u = "chans.txt" ->
               [readable |-> TRUE,
                entries |-> <<[body |-> "1x0x0", comment |-> ""], [body |-> "junk", comment |-> ""]>>]
          [] OTHER -> [readable |-> FALSE, entries |-> <<>>]]

\* get_chan_info's record: absent, or with this node as node1, as node2, as
\* neither end or as both; one end advertises [base, rate], the other
\* something else, and [base, rate] is at node1 when node2 is this node
Sides == {"absent", "node1", "node2", "neither", "both"}

ChanInfo(side, base, rate) ==
    LET peer == [fee_base_msat |-> base, fee_rate_milli_msat |-> rate]
        own == [fee_base_msat |-> base + 5, fee_rate_milli_msat |-> rate + 5]
    IN  [present |-> side # "absent",
         node1_pub |-> IF side \in {"node2", "neither"} THEN "peer" ELSE "me",
         node2_pub |-> IF side \in {"node2", "both"} THEN "me"
                       ELSE IF side = "neither" THEN "other" ELSE "peer",
         node1_policy |-> IF side \in {"node2", "both"} THEN peer ELSE own,
         node2_policy |-> IF side \in {"node2", "both"} THEN own ELSE peer]

\* the channels of the resolver runs
chA ==
    [remote_pubkey |-> "peerA", chan_id |-> <<1, 0, 0>>, capacity |-> 1, local_balance |-> 1,
     remote_balance |-> 0, initiator |-> TRUE, private |-> FALSE]

chB ==
    [remote_pubkey |-> "peerB", chan_id |-> <<2, 0, 0>>, capacity |-> 2, local_balance |-> 1,
     remote_balance |-> 1, initiator |-> FALSE, private |-> FALSE]

chZ ==
    [remote_pubkey |-> "peerA", chan_id |-> <<3, 0, 0>>, capacity |-> 2, local_balance |-> 0,
     remote_balance |-> 0, initiator |-> TRUE, private |-> FALSE]

ResolverLnd(channels) ==
    [channels |-> channels,
     node_info |-> [p \in Pubkeys |-> [num_channels |-> 1, total_capacity |-> 1]],
     chan_info |-> [c \in ChanIds |-> ChanInfo("node1", 1, 1)],
     own_pubkey |-> "me",
     info |-> [present |-> TRUE, block_height |-> 4],
     fwds |-> [c \in ChanIds |-> [htlc_in |-> 1, htlc_out |-> 1, sat_in |-> 1, sat_out |-> 1]]]

\* one channel and a gateway in which every measured quantity is 1, except
\* the quantity dim, which is v; ("both_balances" sets local and remote balance)
MatchChannel(dim, v) ==
    [remote_pubkey |-> "peerA", chan_id |-> <<1, 0, 0>>,
     capacity |-> IF dim = "capacity" THEN v ELSE 1,
     local_balance |-> IF dim \in {"local_balance", "both_balances"} THEN v ELSE 1,
     remote_balance |-> IF dim \in {"remote_balance", "both_balances"} THEN v ELSE 1,
     initiator |-> TRUE, private |-> FALSE]

MatchLnd(dim, v, side, info_present) ==
    [channels |-> {MatchChannel(dim, v)},
     node_info |-> [p \in Pubkeys |-> [num_channels |-> IF dim = "num_channels" THEN v ELSE 1,
                                       total_capacity |-> IF dim = "total_capacity" THEN v ELSE 1]],
     chan_info |-> [c \in ChanIds |-> ChanInfo(side, IF dim = "fee_base_msat" THEN v ELSE 1,
                                               IF dim = "fee_rate_milli_msat" THEN v ELSE 1)],
     own_pubkey |-> "me",
     info |-> [present |-> info_present, block_height |-> 1 + (IF dim = "age" THEN v ELSE 1)],
     fwds |-> [c \in ChanIds |-> [htlc_in |-> IF dim = "htlc_in" THEN v ELSE 1,
                                  htlc_out |-> IF dim = "htlc_out" THEN v ELSE 1,
                                  sat_in |-> IF dim = "sat_in" THEN v ELSE 1,
                                  sat_out |-> IF dim = "sat_out" THEN v ELSE 1]]]

Dims ==
    {"capacity", "local_balance", "remote_balance", "both_balances", "fee_base_msat",
     "fee_rate_milli_msat", "age", "htlc_in", "htlc_out", "sat_in", "sat_out",
     "num_channels", "total_capacity"}

ChanIntKeys ==
    {"min_capacity", "max_capacity", "min_local_balance", "max_local_balance",
     "min_remote_balance", "max_remote_balance", "min_base_fee_msat", "max_base_fee_msat",
     "min_fee_ppm", "max_fee_ppm", "min_age", "max_age"}

ActivityKeys ==
    {"min_htlcs_in", "max_htlcs_in", "min_htlcs_out", "max_htlcs_out",
     "min_sats_in", "max_sats_in", "min_sats_out", "max_sats_out"}

NodeIntKeys == {"min_channels", "max_channels", "min_capacity", "max_capacity"}

\* sections with one numeric criterion (an activity bound comes with its period)
\* the texts getboolean reads as True and as False
BooleanTexts == {"1", "yes", "true", "on", "0", "no", "false", "off"}

CriterionSections ==
    {<<Opt(Chan(k), IntV(b))>> : k \in ChanIntKeys \cup ActivityKeys, b \in Vals}
    \cup {<<Opt(Node(k), IntV(b))>> : k \in NodeIntKeys, b \in Vals}
    \cup {<<Opt(Chan(k), IntV(h))>> : k \in {"min_ratio", "max_ratio"}, h \in {25, 50, 75}}
    \cup {<<Opt(Chan("activity_period"), Period(10, "m")), Opt(Chan(k), IntV(b))>> :
            k \in ActivityKeys, b \in Vals}
    \cup {<<Opt(Chan("activity_period"), p)>> :
            p \in {Period(600, ""), Period(10, "m"), Period(1, "h"), Period(5, "x")}}
    \cup {<<Opt(Chan(k), StrV(b))>> : k \in {"initiator", "private"}, b \in BooleanTexts}

\* the options the sections of the dispatcher runs are made of
EvalOptions ==
    {Opt(Chan("bogus"), IntV(1)), Opt(Chan("min_capacity"), IntV(2)),
     Opt(Chan("initiator"), StrV("false")), Opt(Chan("id"), ListV(<<Item("1x0x0")>>)),
     Opt(Node("id"), ListV(<<Item("peerB")>>)), Opt(Node("min_channels"), IntV(1)),
     Opt(Node("max_channels"), IntV(1)), Opt(<<"foo", "x">>, IntV(1)), Opt(Plain("x"), IntV(1))}

DistinctKeys(section) ==
    \A i, j \in DOMAIN section : section[i].key = section[j].key => i = j

KeySeqSections ==
    {sec \in UNION {[1..k -> EvalOptions] : k \in 0..MaxKeys} : DistinctKeys(sec)}

\* sections opening files, parsing ids and periods, or holding a bare "chan" key
SpecialSections ==
    {<<Opt(Chan("activity_period"), Period(5, "x")), Opt(Plain("strategy"), StrV("static"))>>,
     <<Opt(Node("id"), ListV(<<FileItem("missing.txt")>>)), Opt(Plain("strategy"), StrV("static"))>>,
     <<Opt(Node("id"), ListV(<<FileItem("nodes.txt")>>)), Opt(Plain("strategy"), StrV("static"))>>,
     <<Opt(Chan("id"), ListV(<<Item("junk")>>)), Opt(Plain("strategy"), StrV("static"))>>,
     <<Opt(Chan("id"), ListV(<<FileItem("missing.txt")>>)), Opt(Plain("strategy"), StrV("static"))>>,
     <<Opt(Chan("id"), ListV(<<FileItem("chans.txt"), Item("2x0x0")>>)), Opt(Plain("strategy"), StrV("static"))>>,
     <<Opt(Chan("id"), ListV(<<FileItem("chans.txt"), FileItem("missing.txt")>>)), Opt(Plain("strategy"), StrV("static"))>>,
     <<Opt(Chan("id"), ListV(<<FileItem("chans.txt")>>)), Opt(<<"foo", "x">>, IntV(1)), Opt(Plain("strategy"), StrV("static"))>>,
     <<Opt(Chan("initiator"), StrV("yes")), Opt(Plain("strategy"), StrV("static"))>>,
     <<Opt(<<"chan">>, IntV(1)), Opt(Chan("min_capacity"), IntV(1)), Opt(Plain("strategy"), StrV("static"))>>}

\* the sections the policy lists of the resolver runs are drawn from
CoreSections ==
    {<<Opt(Plain("x"), IntV(1))>>,
     <<Opt(Chan("min_capacity"), IntV(2)), Opt(Plain("x"), IntV(2)), Opt(Plain("y"), IntV(1))>>,
     <<Opt(Plain("strategy"), StrV("static")), Opt(Plain("x"), IntV(3))>>,
     <<Opt(Chan("min_capacity"), IntV(2)), Opt(Plain("strategy"), StrV("proportional"))>>,
     <<Opt(Node("id"), ListV(<<Item("peerA")>>)), Opt(Plain("strategy"), StrV("cost")), Opt(Plain("y"), IntV(2))>>,
     <<Opt(Chan("bogus"), IntV(1)), Opt(Plain("strategy"), StrV("static"))>>,
     <<Opt(<<"foo", "x">>, IntV(1)), Opt(Plain("strategy"), StrV("static"))>>,
     <<Opt(Plain("strategy"), StrV("")), Opt(Plain("z"), IntV(1))>>}

NoDefault == [present |-> FALSE, section |-> <<>>]

TerminalDefault ==
    [present |-> TRUE, section |-> <<Opt(Plain("strategy"), StrV("ignore")), Opt(Plain("x"), IntV(9))>>]

Defaults ==
    {NoDefault, TerminalDefault,
     [present |-> TRUE, section |-> <<Opt(Plain("d"), IntV(1))>>],
     [present |-> TRUE, section |-> <<>>]}

PolicyName(i) ==
    CASE i = 1 -> "p1" [] i = 2 -> "p2" [] i = 3 -> "p3" [] i = 4 -> "p4" [] OTHER -> "p5"

\* the configuration declaring the sections of list, in that order
Config(list, default) ==
    [policies |-> [i \in DOMAIN list |-> PolicyName(i)],
     sections |-> [n \in {PolicyName(i) : i \in DOMAIN list} |->
                     list[CHOOSE i \in DOMAIN list : PolicyName(i) = n]],
     default |-> default]

CoreConfigs ==
    {Config(list, d) : list \in UNION {[1..k -> CoreSections] : k \in 0..MaxPolicies}, d \in Defaults}

SingleConfigs ==
    {Config(<<sec \o strat>>, d) :
        sec \in KeySeqSections,
        strat \in {<<>>, <<Opt(Plain("strategy"), StrV("static"))>>},
        d \in {NoDefault, TerminalDefault}}

SpecialConfigs ==
    {Config(pre \o <<sec>> \o post, d) :
        pre \in {<<>>, <<(<<Opt(Plain("x"), IntV(1))>>)>>},
        sec \in SpecialSections,
        post \in {<<>>, <<(<<Opt(Plain("strategy"), StrV("static")), Opt(Plain("x"), IntV(3))>>)>>},
        d \in Defaults}

InitCalls ==
    /\ channel = NoChannel
    /\ policy = PolicyInit
    /\ result = Idle
    /\ log = <<>>
    /\ trace = EmptyTrace
    /\ first = [c \in ChanIds |-> Unset]
    /\ files = Files

Init ==
    /\ InitCalls
    /\ \/ config \in CoreConfigs /\ lnd = ResolverLnd({chA, chB})
       \/ config \in SingleConfigs /\ lnd = ResolverLnd({chA, chB, chZ})
       \/ config \in SpecialConfigs /\ lnd = ResolverLnd({chA, chB, chZ})

\* what a caller writes into a returned policy
SetKeys == {Plain("fee_ppm"), Plain("x")}

SetVals == {IntV(MaxVal)}

Next ==
    \/ \E ch \in lnd.channels : GetPolicyFor(ch)
    \/ \E key \in SetKeys, value \in SetVals : PolicySet(key, value)

Spec == Init /\ [][Next]_vars

\* the matchers and the dispatcher on one section
InitMatch ==
    /\ InitCalls
    /\ \/ /\ config \in {Config(<<sec>>, NoDefault) : sec \in CriterionSections}
          /\ lnd \in {MatchLnd(dim, v, side, inf) :
                        dim \in Dims, v \in Vals, side \in Sides, inf \in BOOLEAN}
       \/ /\ config \in {Config(<<sec>>, NoDefault) : sec \in KeySeqSections \cup SpecialSections}
          /\ lnd = ResolverLnd({chA, chB, chZ})

NextMatch ==
    \E ch \in lnd.channels :
        \/ EvalMatchers(ch, "p1")
        \/ MatchByChan(ch, "p1")
        \/ MatchByNode(ch, "p1")

SpecMatch == InitMatch /\ [][NextMatch]_vars

(***************************************************************************)
(* Properties of get_policy_for (specification Spec)                       *)
(***************************************************************************)
Called == result.op = "get_policy_for"

Max(S) == CHOOSE x \in S : \A y \in S : x >= y

SectionAt(i) == config.sections[config.policies[i]]

\* the section has a strategy option with a non-empty value
DeclaresStrategy(section) ==
    \E k \in DOMAIN section : section[k].key = <<"strategy">> /\ section[k].val.s # ""

\* the declared policies that match the channel of the last call
MatchesAt(i) == eval_matchers(channel, SectionAt(i)).ret = "true"

TerminalMatches == {i \in DOMAIN config.policies : MatchesAt(i) /\ DeclaresStrategy(SectionAt(i))}

\* C1: a call in which no matcher raised evaluated the policies in declaration
\* order and returned the policy named after the first one that matches the
\* channel and declares a (non-empty) strategy; nothing declared after it was
\* evaluated or merged; without such a policy no declared policy is returned
\* and every declared policy was evaluated.
C1_FirstTerminalMatchWins ==
    (Called /\ result.exc = "") =>
        /\ \A i \in DOMAIN trace.evals :
              i <= Len(config.policies) /\ trace.evals[i].policy = config.policies[i]
        /\ IF TerminalMatches # {}
           THEN /\ result.kind = "policy"
                /\ result.value.name = config.policies[Min(TerminalMatches)]
                /\ Len(trace.evals) = Min(TerminalMatches)
                /\ Range(trace.applied) \subseteq {config.policies[i] : i \in 1..Min(TerminalMatches)}
           ELSE /\ result.value.name \notin Range(config.policies)
                /\ Len(trace.evals) = Len(config.policies)

\* C1's case: the second of three policies closed the scan, after a matching
\* policy without strategy, and the third is a matching terminal policy too
C1_Witness ==
    /\ Called /\ result.exc = "" /\ Len(config.policies) = 3
    /\ result.value.name = "p2"
    /\ trace.applied = <<"p1", "p2">>
    /\ MatchesAt(3) /\ DeclaresStrategy(SectionAt(3))

\* C2: the configuration of a policy closed by the declared policy T is the
\* overlay, in declaration order and last write wins, of the sections of the
\* policies up to T that match the channel: its keys are exactly their keys
\* and every key has the value of the last matching section that sets it.
C2_MergedConfigIsOverlay ==
    (Called /\ result.kind = "policy" /\ result.value.name \in Range(config.policies)) =>
        LET T == CHOOSE i \in DOMAIN config.policies : config.policies[i] = result.value.name
            M == {i \in 1..T : MatchesAt(i)}
            cfg == result.value.config
        IN  /\ DOMAIN cfg = UNION {Keys(SectionAt(i)) : i \in M}
            /\ \A k \in DOMAIN cfg :
                  cfg[k] = Val(SectionAt(Max({i \in M : Has(SectionAt(i), k)})), k)

\* C2's case: the third policy closed the scan, the first matched and set a
\* key the third one overwrote, and the second did not match
C2_Witness ==
    /\ Called /\ result.kind = "policy" /\ result.value.name = "p3"
    /\ MatchesAt(1) /\ ~MatchesAt(2)
    /\ \E k \in Keys(SectionAt(1)) \cap Keys(SectionAt(3)) : Val(SectionAt(1), k) # Val(SectionAt(3), k)
    /\ Keys(SectionAt(1)) \ Keys(SectionAt(3)) # {}
    /\ Keys(SectionAt(2)) \ (Keys(SectionAt(1)) \cup Keys(SectionAt(3))) # {}

\* the overlay of the matching declared policies, then of the default section
AllMatches == {i \in DOMAIN config.policies : MatchesAt(i)}

IsScanThenDefault(cfg) ==
    /\ DOMAIN cfg = UNION {Keys(SectionAt(i)) : i \in AllMatches} \cup Keys(config.default.section)
    /\ \A k \in DOMAIN cfg :
          cfg[k] = IF Has(config.default.section, k) THEN Val(config.default.section, k)
                   ELSE Val(SectionAt(Max({i \in AllMatches : Has(SectionAt(i), k)})), k)

ScanEndedWithoutTerminal == Called /\ result.exc = "" /\ TerminalMatches = {}

\* C3 as stated: after a scan without terminal match and without exception a
\* configured default section always yields a policy, and "no policy" is
\* returned only when no default section is configured.
C3_AsStated ==
    ScanEndedWithoutTerminal =>
        /\ config.default.present => (result.kind = "policy" /\ IsScanThenDefault(result.value.config))
        /\ result.kind = "none" => ~config.default.present

\* C3 amended: after such a scan the call returns a policy exactly when the
\* default section is configured and declares a (non-empty) strategy; the
\* policy is named default and its configuration is the accumulated merge
\* overlaid with the default section; otherwise the call returns no policy.
C3_DefaultNeedsStrategy ==
    ScanEndedWithoutTerminal =>
        IF config.default.present /\ DeclaresStrategy(config.default.section)
        THEN /\ result.kind = "policy"
             /\ result.value.name = "default"
             /\ result.value.strategy
             /\ IsScanThenDefault(result.value.config)
        ELSE result.kind = "none"

\* C3's case: a matching policy without strategy was merged, no terminal policy
\* matched, and the default overwrote one of the merged keys
C3_Witness ==
    /\ ScanEndedWithoutTerminal
    /\ result.kind = "policy" /\ result.value.name = "default"
    /\ trace.applied = <<"p1", "default">>
    /\ \E k \in Keys(SectionAt(1)) \cap Keys(config.default.section) :
          Val(SectionAt(1), k) # Val(config.default.section, k)

\* the section has a dotted chan.* or node.* key outside the accepted set
UnknownKey(section) ==
    \E k \in DOMAIN section :
        /\ Len(section[k].key) > 1
        /\ \/ section[k].key[1] = "chan" /\ section[k].key[2] \notin chan_accepted
           \/ section[k].key[1] = "node" /\ section[k].key[2] \notin node_accepted

\* C4: when the scan evaluates a section with an unknown chan.* or node.* key,
\* the call returns no policy and writes the error, whatever else the
\* section holds.
C4_UnknownKeyFailsResolution ==
    Called =>
        \A i \in DOMAIN trace.evals :
            UnknownKey(config.sections[trace.evals[i].policy]) =>
                /\ result.kind = "none"
                /\ result.exc # ""
                /\ "Error evaluating criteria" \in Range(log)

\* C5: a call in which a matcher raised returned None (not the partly merged
\* policy, not the default) and wrote the error; and whatever calls came
\* before, failed ones included, a call for a channel returns what the first
\* call for that channel returned.
C5_ExceptionYieldsNoPolicy ==
    Called =>
        /\ (\E i \in DOMAIN trace.evals : trace.evals[i].ret = "raise") =>
              /\ result.kind = "none"
              /\ result.value = [name |-> "None", strategy |-> FALSE, config |-> <<>>]
              /\ result.exc # ""
              /\ "default" \notin Range(trace.applied)
              /\ log[Len(log)] = "Error evaluating criteria"
        /\ result = first[channel.chan_id]

\* C5's case: an identifier file could not be read after an earlier policy had
\* been merged, a terminal default is configured, and a call for another
\* channel had been made before
C5_Witness ==
    /\ Called /\ result.exc = "OSError"
    /\ trace.applied # <<>>
    /\ policy.config # <<>>
    /\ DeclaresStrategy(config.default.section)
    /\ \E c \in ChanIds : c # channel.chan_id /\ first[c].op = "get_policy_for"

\* the chan.id, chan.initiator and chan.private checks of the section pass
PassesIdAndFlags(section, ch) ==
    /\ Has(section, Chan("id")) =>
          /\ ExpandChanIds(getlist(section, Chan("id")), <<>>, <<>>).ok
          /\ ch.chan_id \in Range(ExpandChanIds(getlist(section, Chan("id")), <<>>, <<>>).list)
    /\ Has(section, Chan("initiator")) =>
          (ch.initiator = getboolean(section, Chan("initiator")))
    /\ Has(section, Chan("private")) =>
          (ch.private = getboolean(section, Chan("private")))

\* C10: for a channel whose local and remote balance are both 0, every
\* evaluation that ran the channel matcher on a section whose chan.* keys
\* are accepted and whose id, initiator and private checks pass raised
\* ZeroDivisionError, with or without a ratio bound, and the call returned
\* no policy, the default not applied.
C10_ZeroBalanceRaises ==
    (Called /\ channel.local_balance + channel.remote_balance = 0) =>
        \A i \in DOMAIN trace.evals :
            ( /\ "chan" \in Range(trace.evals[i].invoked)
              /\ ~UnknownKey(config.sections[trace.evals[i].policy])
              /\ <<"chan">> \notin Keys(config.sections[trace.evals[i].policy])
              /\ PassesIdAndFlags(config.sections[trace.evals[i].policy], channel) ) =>
                /\ trace.evals[i].ret = "raise"
                /\ trace.evals[i].exc = "ZeroDivisionError"
                /\ result.kind = "none"
                /\ result.exc = "ZeroDivisionError"
                /\ "default" \notin Range(trace.applied)

\* C10's case: the section has a capacity bound and no ratio bound, a terminal
\* default is configured, and the call failed on the division
C10_Witness ==
    /\ Called /\ channel.local_balance + channel.remote_balance = 0
    /\ result.exc = "ZeroDivisionError" /\ result.kind = "none"
    /\ DeclaresStrategy(config.default.section)
    /\ Has(SectionAt(1), Chan("min_capacity"))
    /\ ~Has(SectionAt(1), Chan("min_ratio")) /\ ~Has(SectionAt(1), Chan("max_ratio"))

(***************************************************************************)
(* Properties of the matchers and the dispatcher (specification SpecMatch) *)
(***************************************************************************)
Dispatched == result.op = "eval_matchers"

\* the section and what the last call did with it
Sec1 == config.sections["p1"]

Eval1 == trace.evals[1]

Count(seq, x) == Cardinality({i \in DOMAIN seq : seq[i] = x})

HasUnknownNamespace(section) ==
    \E k \in DOMAIN section : Len(section[k].key) > 1 /\ section[k].key[1] \notin {"node", "chan"}

\* the first dotted key of the section has a namespace other than node and chan
FirstDottedKeyUnknown(section) ==
    \E k \in DOMAIN section :
        /\ Len(section[k].key) > 1 /\ section[k].key[1] \notin {"node", "chan"}
        /\ \A j \in 1..(k - 1) : Len(section[j].key) = 1

\* C6 as stated: a section with a dotted key of an unknown namespace is
\* rejected before any matcher runs: false, a warning, no matcher invoked,
\* no gateway call, no exception, whatever the order of its keys.
C6_AsStated ==
    (Dispatched /\ HasUnknownNamespace(Sec1)) =>
        /\ Eval1.ret = "false" /\ Eval1.warned
        /\ Eval1.invoked = <<>> /\ Eval1.calls = <<>>

\* C6 amended: such a section never matches.  It is rejected before any
\* matcher runs when the unknown namespace belongs to its first dotted key;
\* otherwise the matchers of the dotted keys before it run first: when one
\* of them raises, eval_matchers raises and no warning is written, and when
\* none raises it returns false with the warning.
C6_UnknownNamespaceInKeyOrder ==
    (Dispatched /\ HasUnknownNamespace(Sec1)) =>
        /\ Eval1.ret # "true"
        /\ Eval1.ret = "false" =>
              /\ Eval1.warned
              /\ log # <<>> /\ log[Len(log)] = "Unknown namespace"
              /\ \A i \in 1..(Len(log) - 1) : log[i] # "Unknown namespace"
        /\ Eval1.ret = "raise" =>
              (~Eval1.warned /\ Eval1.invoked # <<>> /\ "Unknown namespace" \notin Range(log))
        /\ FirstDottedKeyUnknown(Sec1) =>
              /\ Eval1.ret = "false" /\ Eval1.warned
              /\ Eval1.invoked = <<>> /\ Eval1.calls = <<>>

\* C6's case: a chan.* key precedes the unknown namespace, the channel matcher
\* ran and called the gateway before the section was rejected
C6_Witness ==
    /\ Dispatched /\ HasUnknownNamespace(Sec1)
    /\ Eval1.ret = "false" /\ Eval1.warned
    /\ Eval1.invoked = <<"chan">> /\ Eval1.calls # <<>>

MinKeys ==
    {"min_ratio", "min_capacity", "min_local_balance", "min_remote_balance", "min_base_fee_msat",
     "min_fee_ppm", "min_age", "min_htlcs_in", "min_htlcs_out", "min_sats_in", "min_sats_out",
     "min_channels"}

\* the bound of a min_ key is met from the bound upwards, that of a max_ key
\* up to the bound, the bound included
Within(name, bound, measured) == IF name \in MinKeys THEN bound <= measured ELSE measured <= bound

\* line 223: node1's policy when node2 is this node, else node2's
PeerPolicy ==
    IF lnd.chan_info[channel.chan_id].node2_pub = lnd.own_pubkey
    THEN lnd.chan_info[channel.chan_id].node1_policy
    ELSE lnd.chan_info[channel.chan_id].node2_policy

AgeInBlocks == lnd.info.block_height - lnd_to_cl_scid(channel.chan_id)[1]

MeasuredChan(name) ==
    CASE name \in {"min_capacity", "max_capacity"} -> channel.capacity
      [] name \in {"min_local_balance", "max_local_balance"} -> channel.local_balance
      [] name \in {"min_remote_balance", "max_remote_balance"} -> channel.remote_balance
      [] name \in {"min_base_fee_msat", "max_base_fee_msat"} -> PeerPolicy.fee_base_msat
      [] name \in {"min_fee_ppm", "max_fee_ppm"} -> PeerPolicy.fee_rate_milli_msat
      [] name \in {"min_age", "max_age"} -> AgeInBlocks
      [] name \in {"min_htlcs_in", "max_htlcs_in"} -> lnd.fwds[channel.chan_id].htlc_in
      [] name \in {"min_htlcs_out", "max_htlcs_out"} -> lnd.fwds[channel.chan_id].htlc_out
      [] name \in {"min_sats_in", "max_sats_in"} -> lnd.fwds[channel.chan_id].sat_in
      [] name \in {"min_sats_out", "max_sats_out"} -> lnd.fwds[channel.chan_id].sat_out

MeasuredNode(name) ==
    IF name \in {"min_channels", "max_channels"}
    THEN lnd.node_info[channel.remote_pubkey].num_channels
    ELSE lnd.node_info[channel.remote_pubkey].total_capacity

\* a ratio bound of h hundredths against local / (local + remote)
RatioWithin(name, h) ==
    IF name = "min_ratio"
    THEN h * (channel.local_balance + channel.remote_balance) <= 100 * channel.local_balance
    ELSE h * (channel.local_balance + channel.remote_balance) >= 100 * channel.local_balance

LookupsSucceed == lnd.chan_info[channel.chan_id].present /\ lnd.info.present

\* C7: with every lookup answered, a section with one min_ or max_ criterion
\* matches exactly when the measured value is within the bound, the bound
\* included: equal to the bound it matches, one below a min or one above a
\* max it does not.  (An activity bound is taken with an activity period no
\* longer than the channel's age.)
C7_BoundsAreInclusive ==
    /\ ( /\ result.op = "match_by_chan" /\ result.kind # "raise" /\ LookupsSucceed
         /\ Len(Sec1) = 1 /\ Sec1[1].key[1] = "chan" ) =>
            /\ Sec1[1].key[2] \in ChanIntKeys =>
                  (result.kind = "true" <=> Within(Sec1[1].key[2], Sec1[1].val.n, MeasuredChan(Sec1[1].key[2])))
            /\ Sec1[1].key[2] \in {"min_ratio", "max_ratio"} =>
                  (result.kind = "true" <=> RatioWithin(Sec1[1].key[2], Sec1[1].val.n))
    /\ ( /\ result.op = "match_by_chan" /\ result.kind # "raise" /\ LookupsSucceed
         /\ Len(Sec1) = 2 /\ Sec1[1].key = <<"chan", "activity_period">>
         /\ Sec1[2].key[1] = "chan" /\ Sec1[2].key[2] \in ActivityKeys
         /\ parse_activity_period(Sec1[1].val).seconds <= AgeInBlocks * 600 ) =>
            (result.kind = "true" <=> Within(Sec1[2].key[2], Sec1[2].val.n, MeasuredChan(Sec1[2].key[2])))
    /\ ( /\ result.op = "match_by_node"
         /\ Len(Sec1) = 1 /\ Sec1[1].key[1] = "node" /\ Sec1[1].key[2] \in NodeIntKeys ) =>
            (result.kind = "true" <=> Within(Sec1[1].key[2], Sec1[1].val.n, MeasuredNode(Sec1[1].key[2])))

\* C7's case: a max bound over the activity window, met with equality
C7_Witness ==
    /\ result.op = "match_by_chan" /\ result.kind = "true"
    /\ Len(Sec1) = 2 /\ Sec1[2].key = <<"chan", "max_sats_out">>
    /\ Sec1[2].val.n = lnd.fwds[channel.chan_id].sat_out
    /\ Sec1[2].val.n > 0

BalanceKeys ==
    {"min_ratio", "max_ratio", "min_capacity", "max_capacity", "min_local_balance",
     "max_local_balance", "min_remote_balance", "max_remote_balance"}

OnlyBalanceCriteria(section) ==
    /\ section # <<>>
    /\ \A k \in DOMAIN section :
          Len(section[k].key) = 2 /\ section[k].key[1] = "chan" /\ section[k].key[2] \in BalanceKeys

BalanceBoundsHold(section) ==
    \A k \in DOMAIN section :
        IF section[k].key[2] \in {"min_ratio", "max_ratio"}
        THEN RatioWithin(section[k].key[2], section[k].val.n)
        ELSE Within(section[k].key[2], section[k].val.n, MeasuredChan(section[k].key[2]))

\* C8 as stated, in its particular form: a section whose only criteria are
\* ratio, capacity or balance bounds matches exactly when those bounds hold
\* against the channel record, whatever get_chan_info and get_info return.
C8_AsStated ==
    (result.op = "match_by_chan" /\ result.kind # "raise" /\ OnlyBalanceCriteria(Sec1)) =>
        (result.kind = "true" <=> BalanceBoundsHold(Sec1))

\* C8 amended: a missing record makes the whole section a non-match, whatever
\* its criteria: match_by_chan never returns true when get_chan_info or
\* get_info returns nothing, and asks get_chan_info as soon as the id, flag,
\* ratio, capacity and balance checks pass.  A section whose only criteria
\* are ratio, capacity or balance bounds matches exactly when those bounds
\* hold and both lookups return a record.
C8_MissingRecordIsNonMatch ==
    (result.op = "match_by_chan" /\ result.kind # "raise") =>
        /\ ~LookupsSucceed => result.kind = "false"
        /\ OnlyBalanceCriteria(Sec1) =>
              /\ result.kind = "true" <=> (BalanceBoundsHold(Sec1) /\ LookupsSucceed)
              /\ BalanceBoundsHold(Sec1) => (Eval1.calls # <<>> /\ Eval1.calls[1] = "get_chan_info")

\* C8's case: the only criterion is a capacity bound that holds, get_chan_info
\* returned nothing, and the section did not match
C8_Witness ==
    /\ result.op = "match_by_chan" /\ result.kind = "false"
    /\ Len(Sec1) = 1 /\ Sec1[1].key = <<"chan", "min_capacity">>
    /\ Sec1[1].val.n <= channel.capacity
    /\ ~lnd.chan_info[channel.chan_id].present
    /\ Eval1.calls = <<"get_chan_info">>

NodeKeyCount(section) ==
    Cardinality({k \in DOMAIN section : Len(section[k].key) > 1 /\ section[k].key[1] = "node"})

HasNodeBound(section) == \E k \in NodeIntKeys : Has(section, Node(k))

\* C9 as stated, for an evaluation that reaches the lookup: in one
\* eval_matchers call on a section with a node.min_ or node.max_ bound,
\* get_node_info is called exactly once, however many node.* keys there are.
C9_AsStated ==
    (Dispatched /\ HasNodeBound(Sec1) /\ Count(Eval1.calls, "get_node_info") > 0) =>
        Count(Eval1.calls, "get_node_info") = 1

\* C9 amended: get_node_info is called once by every match_by_node run that
\* gets past the node.id check, and match_by_node runs once for every node.*
\* key reached while the conjunction still holds (the namespaces are not
\* deduplicated): the number of calls is at most the number of node.* keys
\* of the section, and equals it whenever eval_matchers returns true.
C9_OneLookupPerNodeKey ==
    Dispatched =>
        /\ Count(Eval1.calls, "get_node_info") <= Count(Eval1.invoked, "node")
        /\ Count(Eval1.invoked, "node") <= NodeKeyCount(Sec1)
        /\ Eval1.ret = "true" => Count(Eval1.calls, "get_node_info") = NodeKeyCount(Sec1)

\* C9's case: two node bounds that hold, two get_node_info calls
C9_Witness ==
    /\ Dispatched /\ Eval1.ret = "true"
    /\ Has(Sec1, Node("min_channels")) /\ Has(Sec1, Node("max_channels"))
    /\ Count(Eval1.calls, "get_node_info") = 2

====
